---- MODULE Spec2Model ----
(***************************************************************************)
(* A model of jupyter_lab_progress.progress.LabProgress: the step          *)
(* registry, the analytics log, the persisted JSON file and session        *)
(* resume.                                                                 *)
(*                                                                         *)
(* Every method is an operator from a "world" record to a world record:    *)
(*   w.self  the LabProgress object (its attributes)                       *)
(*   w.fs    the file system: path -> [exists, text]                       *)
(*   w.now   what datetime.now() returns during the call                   *)
(*   w.uuid  the number of uuid4() values drawn so far                     *)
(*   w.ret   what the call returns ("None", "True", "False",               *)
(*           "LabProgress") or the exception it raises                     *)
(*   w.saved history: path -> the tracker as it was when it last wrote     *)
(*           the file at that path (<<>> before any write, and when the    *)
(*           file is no longer what the tracker wrote)                     *)
(* One session is alive at a time; constructing a tracker or resuming      *)
(* replaces it (a restarted notebook kernel).  display_progress and the    *)
(* other display(HTML(...)) calls only render and are left out, as is      *)
(* step_metadata.                                                          *)
(*                                                                         *)
(* Numbers: partial_progress and progress values are counted in            *)
(* hundredths, so Unit (100) is the float 1.0.  An Optional value is <<>>  *)
(* for None and <<v>> for v.  A datetime is the clock reading n, and its   *)
(* isoformat() is <<"iso", n>>.                                            *)
(***************************************************************************)
EXTENDS Integers, Sequences, FiniteSets, TLC

VARIABLES
    tracker,     \* the live LabProgress object
    fs,          \* the files
    clock,       \* the next reading of datetime.now()
    uuid_count,  \* uuid4() values drawn so far
    saved,       \* history: per path, the tracker that last wrote it, as it was
    call,        \* history: the last call, its arguments and what it returned
    history,     \* history: the calls made since the live tracker was constructed
    validator,   \* the LabValidator object (its scoring rules and history)
    report       \* what the last run_auto_grading returned (<<>> before any)

vars == <<tracker, fs, clock, uuid_count, saved, call, history, validator,
          report>>

\* ------------------------------------------------------------------ bounds
\* datetime.now() readings: one per call, so this bounds the number of calls
MaxClock == 2

\* the number of calls made on a validator
MaxGradingCalls == 4

\* ------------------------------------------------------------------ values
None == <<>>
Some(v) == <<v>>

\* the float 1.0 of min(1, progress), in hundredths
Unit == 100

Min(a, b) == IF a < b THEN a ELSE b
Max(a, b) == IF a > b THEN a ELSE b

\* datetime.isoformat() and datetime.fromisoformat()
isoformat(dt) == <<"iso", dt>>
fromisoformat(s) == s[2]
\* the strings fromisoformat() accepts; it raises ValueError on any other
is_isoformat(s) == Len(s) = 2 /\ s[1] = "iso"

\* str(uuid.uuid4())[:8]: the k-th value drawn
uuid4(k) == <<"uuid", k>>

\* f".{lab_name.lower().replace(' ', '_')}_progress.json"
default_persist_file(lab_name) ==
    CASE lab_name = "Lab One" -> ".lab_one_progress.json"
      [] lab_name = "Lab Two" -> ".lab_two_progress.json"

\* a path name starting with '.' and ending in '.json' (Path('.').glob('.*.json'))
is_dot_json(path) == path \in {".lab_one_progress.json", ".lab_two_progress.json"}

Paths == {"custom.json", ".lab_one_progress.json", ".lab_two_progress.json"}

NoFile == [exists |-> FALSE]
File(text) == [exists |-> TRUE, text |-> text]

\* the record every step starts from and reset_step restores
ZeroStep == [completed |-> FALSE, timestamp |-> None, attempts |-> 0,
             score |-> None, notes |-> "", partial_progress |-> 0,
             checkpoints |-> <<>>]

\* the set of elements of a sequence
Range(s) == {s[i] : i \in 1..Len(s)}

\* ------------------------------------------------------------------- JSON
\* json.dump of the dict built by _save_progress.  A JSON object keeps its
\* members in insertion order: steps becomes the sequence of its
\* <<name, record>> members; datetimes were made ISO strings by the caller.
json_dump(data) ==
    [lab_name |-> data.lab_name,
     steps |-> [i \in 1..Len(data.step_order) |->
                   <<data.step_order[i], data.steps[data.step_order[i]]>>],
     start_time |-> data.start_time,
     session_id |-> data.session_id,
     student_id |-> data.student_id,
     last_saved |-> data.last_saved,
     analytics_data |-> data.analytics_data,
     step_start_times |-> data.step_start_times]

\* json.load: the dict of a JSON object, keys in file order
json_load_steps(members) ==
    [name \in {members[i][1] : i \in 1..Len(members)} |->
        (CHOOSE i \in 1..Len(members) : members[i][1] = name) ]

\* the dict has the keys of the text (step_order stands for the order of
\* the keys of data['steps'])
json_load(text) ==
    [k \in DOMAIN text \cup (IF "steps" \in DOMAIN text THEN {"step_order"}
                                                        ELSE {}) |->
        IF k = "steps"
        THEN [name \in DOMAIN json_load_steps(text.steps) |->
                 text.steps[json_load_steps(text.steps)[name]][2]]
        ELSE IF k = "step_order"
        THEN [i \in 1..Len(text.steps) |-> text.steps[i][1]]
        ELSE text[k]]

\* a text that is not JSON (a truncated file); json.load raises
\* JSONDecodeError on it
NotJson == [garbage |-> TRUE]
json_parses(text) == "garbage" \notin DOMAIN text

\* -------------------------------------------------------------- LabProgress
\* a call without keyword arguments
NoKwargs == [k \in {} |-> None]

\* mutant: the log holds the latest event only
record_analytics_event_latest_only(w, event_type, step_name, kwargs) ==
    [w EXCEPT !.self.analytics_data =
        <<[timestamp |-> isoformat(w.now),
           session_id |-> w.self.session_id,
           student_id |-> w.self.student_id,
           lab_name |-> w.self.lab_name,
           event_type |-> event_type,
           step_name |-> step_name] @@ kwargs>>]

\* mutant: an event carries the student id drawn by the constructor, not
\* the one loaded afterwards
record_analytics_event_drawn_student(w, event_type, step_name, kwargs) ==
    [w EXCEPT !.self.analytics_data =
        Append(@, [timestamp |-> isoformat(w.now),
                   session_id |-> w.self.session_id,
                   student_id |-> uuid4(w.uuid),
                   lab_name |-> w.self.lab_name,
                   event_type |-> event_type,
                   step_name |-> step_name] @@ kwargs)]

\* _record_analytics_event(event_type, step_name, **kwargs)
record_analytics_event(w, event_type, step_name, kwargs) ==
    [w EXCEPT !.self.analytics_data =
        Append(@, [timestamp |-> isoformat(w.now),
                   session_id |-> w.self.session_id,
                   student_id |-> w.self.student_id,
                   lab_name |-> w.self.lab_name,
                   event_type |-> event_type,
                   step_name |-> step_name] @@ kwargs)]

\* _save_progress(): overwrite the persist file with the session as JSON
save_progress(w) ==
    [w EXCEPT !.saved[w.self.persist_file] = Some(w.self),
              !.fs[w.self.persist_file] =
        File(json_dump(
            [lab_name |-> w.self.lab_name,
             steps |-> w.self.steps,
             step_order |-> w.self.step_order,
             start_time |-> isoformat(w.self.start_time),
             session_id |-> w.self.session_id,
             student_id |-> w.self.student_id,
             last_saved |-> isoformat(w.now),
             analytics_data |-> w.self.analytics_data,
             step_start_times |->
                 [k \in DOMAIN w.self.step_start_times |->
                     isoformat(w.self.step_start_times[k])]]))]

\* "if self.persist and self.auto_save: self._save_progress()"
auto_save_progress(w) ==
    IF w.self.persist /\ w.self.auto_save THEN save_progress(w) ELSE w

\* mutant: the score is assigned only when one is given, as the notes are
set_done_keep_score(rec, completion_time, score, notes) ==
    [rec EXCEPT !.completed = TRUE,
                !.timestamp = Some(isoformat(completion_time)),
                !.score = IF score # None THEN score ELSE @,
                !.notes = IF notes # "" THEN notes ELSE @]

\* mutant: a done step is also given full partial progress
set_done_full_progress(rec, completion_time, score, notes) ==
    [rec EXCEPT !.completed = TRUE,
                !.partial_progress = Unit,
                !.timestamp = Some(isoformat(completion_time)),
                !.score = score,
                !.notes = IF notes # "" THEN notes ELSE @]

\* the assignments of mark_done to the step's record
set_done(rec, completion_time, score, notes) ==
    [rec EXCEPT !.completed = TRUE,
                !.timestamp = Some(isoformat(completion_time)),
                !.score = score,
                !.notes = IF notes # "" THEN notes ELSE @]

\* mark_done(step, score=None, notes='')
mark_done(w, step, score, notes) ==
    IF step \in DOMAIN w.self.steps
    THEN LET time_spent ==
                 IF step \in DOMAIN w.self.step_start_times
                 THEN Some(w.now - w.self.step_start_times[step])
                 ELSE None
             w1 == [w EXCEPT !.self.steps[step] = set_done(@, w.now, score, notes)]
             w2 == record_analytics_event(w1, "step_completed", step,
                       [score |-> score, time_spent |-> time_spent,
                        notes |-> notes])
         IN  auto_save_progress(w2)
    ELSE w

\* mutant: min(1, progress), the lower clamp forgotten
clamp_progress_upper_only(progress) == Min(Unit, progress)

\* max(0, min(1, progress))
clamp_progress(progress) == Max(0, Min(Unit, progress))

\* mutant: a new checkpoint replaces the checkpoints the step had
mark_partial_known_one_checkpoint(w, step, progress, notes, checkpoint_name) ==
         LET w1 == [w EXCEPT !.self.steps[step].partial_progress =
                                 clamp_progress(progress),
                             !.self.steps[step].notes =
                                 IF notes # "" THEN notes ELSE @]
             w2 == IF step \notin DOMAIN w1.self.step_start_times /\ progress > 0
                   THEN [w1 EXCEPT !.self.step_start_times =
                                       (step :> w.now) @@ @]
                   ELSE w1
             w3 == IF checkpoint_name # None /\ checkpoint_name # Some("")
                   THEN [w2 EXCEPT !.self.steps[step].checkpoints =
                            <<[name |-> checkpoint_name[1],
                               progress |-> progress,
                               timestamp |-> isoformat(w.now)]>>]
                   ELSE w2
             w4 == record_analytics_event(w3, "partial_progress", step,
                       [progress |-> progress,
                        checkpoint_name |-> checkpoint_name,
                        notes |-> notes])
         IN  auto_save_progress(w4)

\* mutant: the checkpoint holds the clamped progress
mark_partial_known_clamped_checkpoint(w, step, progress, notes, checkpoint_name) ==
         LET w1 == [w EXCEPT !.self.steps[step].partial_progress =
                                 clamp_progress(progress),
                             !.self.steps[step].notes =
                                 IF notes # "" THEN notes ELSE @]
             w2 == IF step \notin DOMAIN w1.self.step_start_times /\ progress > 0
                   THEN [w1 EXCEPT !.self.step_start_times =
                                       (step :> w.now) @@ @]
                   ELSE w1
             w3 == IF checkpoint_name # None /\ checkpoint_name # Some("")
                   THEN [w2 EXCEPT !.self.steps[step].checkpoints =
                            Append(@, [name |-> checkpoint_name[1],
                                       progress |-> clamp_progress(progress),
                                       timestamp |-> isoformat(w.now)])]
                   ELSE w2
             w4 == record_analytics_event(w3, "partial_progress", step,
                       [progress |-> progress,
                        checkpoint_name |-> checkpoint_name,
                        notes |-> notes])
         IN  auto_save_progress(w4)

\* mutant: progress below 1 reopens a completed step
mark_partial_known_reopens(w, step, progress, notes, checkpoint_name) ==
         LET w1 == [w EXCEPT !.self.steps[step].partial_progress =
                                 clamp_progress(progress),
                             !.self.steps[step].completed =
                                 @ /\ clamp_progress(progress) = Unit,
                             !.self.steps[step].notes =
                                 IF notes # "" THEN notes ELSE @]
             w2 == IF step \notin DOMAIN w1.self.step_start_times /\ progress > 0
                   THEN [w1 EXCEPT !.self.step_start_times =
                                       (step :> w.now) @@ @]
                   ELSE w1
             w3 == IF checkpoint_name # None /\ checkpoint_name # Some("")
                   THEN [w2 EXCEPT !.self.steps[step].checkpoints =
                            Append(@, [name |-> checkpoint_name[1],
                                       progress |-> progress,
                                       timestamp |-> isoformat(w.now)])]
                   ELSE w2
             w4 == record_analytics_event(w3, "partial_progress", step,
                       [progress |-> progress,
                        checkpoint_name |-> checkpoint_name,
                        notes |-> notes])
         IN  auto_save_progress(w4)

\* the body of mark_partial for a step of the registry
mark_partial_known(w, step, progress, notes, checkpoint_name) ==
         LET w1 == [w EXCEPT !.self.steps[step].partial_progress =
                                 clamp_progress(progress),
                             !.self.steps[step].notes =
                                 IF notes # "" THEN notes ELSE @]
             w2 == IF step \notin DOMAIN w1.self.step_start_times /\ progress > 0
                   THEN [w1 EXCEPT !.self.step_start_times =
                                       (step :> w.now) @@ @]
                   ELSE w1
             w3 == IF checkpoint_name # None /\ checkpoint_name # Some("")
                   THEN [w2 EXCEPT !.self.steps[step].checkpoints =
                            Append(@, [name |-> checkpoint_name[1],
                                       progress |-> progress,
                                       timestamp |-> isoformat(w.now)])]
                   ELSE w2
             w4 == record_analytics_event(w3, "partial_progress", step,
                       [progress |-> progress,
                        checkpoint_name |-> checkpoint_name,
                        notes |-> notes])
         IN  auto_save_progress(w4)

\* mutant: the start time is recorded before the registry is consulted, as
\* run_shell_step does
mark_partial_start_unguarded(w, step, progress, notes, checkpoint_name) ==
    IF step \in DOMAIN w.self.steps
    THEN mark_partial_known(w, step, progress, notes, checkpoint_name)
    ELSE IF step \notin DOMAIN w.self.step_start_times /\ progress > 0
    THEN [w EXCEPT !.self.step_start_times = (step :> w.now) @@ @]
    ELSE w

\* mark_partial(step, progress, notes='', checkpoint_name=None)
mark_partial(w, step, progress, notes, checkpoint_name) ==
    IF step \in DOMAIN w.self.steps
    THEN mark_partial_known(w, step, progress, notes, checkpoint_name)
    ELSE w

\* mutant: the counter is raised and the event recorded, the save forgotten
increment_attempts_unsaved(w, step) ==
    IF step \in DOMAIN w.self.steps
    THEN record_analytics_event(
             [w EXCEPT !.self.steps[step].attempts = @ + 1],
             "attempt", step, NoKwargs)
    ELSE w

\* increment_attempts(step)
increment_attempts(w, step) ==
    IF step \in DOMAIN w.self.steps
    THEN auto_save_progress(
             record_analytics_event(
                 [w EXCEPT !.self.steps[step].attempts = @ + 1],
                 "attempt", step, NoKwargs))
    ELSE w

\* mutant: only the completed flag is cleared
reset_step_completed_only(w, step) ==
    IF step \in DOMAIN w.self.steps
    THEN auto_save_progress([w EXCEPT !.self.steps[step].completed = FALSE])
    ELSE w

\* mutant: a reset forgets when the step was started
reset_step_clears_start_time(w, step) ==
    IF step \in DOMAIN w.self.steps
    THEN auto_save_progress(
             [w EXCEPT !.self.steps[step] = ZeroStep,
                       !.self.step_start_times =
                           [k \in DOMAIN @ \ {step} |-> @[k]]])
    ELSE w

\* reset_step(step)
reset_step(w, step) ==
    IF step \in DOMAIN w.self.steps
    THEN auto_save_progress([w EXCEPT !.self.steps[step] = ZeroStep])
    ELSE w

\* reset_all(): reset_step for every step, in registry order
RECURSIVE reset_from(_, _)
reset_from(w, i) ==
    IF i > Len(w.self.step_order) THEN w
    ELSE reset_from(reset_step(w, w.self.step_order[i]), i + 1)

\* mutant: only the first step of the registry is reset
reset_all_first_only(w) ==
    IF w.self.step_order = <<>> THEN w
    ELSE reset_step(w, w.self.step_order[1])

reset_all(w) == reset_from(w, 1)

\* ------------------------------------------------------------------ getters
\* The getters read the tracker (self) and change nothing.  Their float
\* results are counted in hundredths like the progress values.

\* the values of a dict comprehension over self.steps.items(), in key order
StepSeq(self) == [i \in 1..Len(self.step_order) |-> self.steps[self.step_order[i]]]

RECURSIVE sum(_)
sum(xs) == IF xs = <<>> THEN 0 ELSE Head(xs) + sum(Tail(xs))

\* mutant: the number of completed steps is not divided by the number of
\* steps
get_completion_rate_count(self) ==
    LET infos == StepSeq(self)
        completed == sum([i \in 1..Len(infos) |->
                             IF infos[i].completed THEN 1 ELSE 0])
    IN  IF self.step_order # <<>> THEN completed * Unit * 100 ELSE 0

\* get_completion_rate(): (completed / len(self.steps)) * 100, or 0
get_completion_rate(self) ==
    LET infos == StepSeq(self)
        completed == sum([i \in 1..Len(infos) |->
                             IF infos[i].completed THEN 1 ELSE 0])
    IN  IF self.step_order # <<>>
        THEN ((completed * Unit) \div Len(self.step_order)) * 100
        ELSE 0

\* mutant: a completed step without a score counts as a score of 0
get_average_score_none_is_zero(self) ==
    LET infos == StepSeq(self)
        done == SelectSeq(infos, LAMBDA info : info.completed)
        scores == [i \in 1..Len(done) |->
                      IF done[i].score # None THEN done[i].score[1] ELSE 0]
    IN  IF scores # <<>> THEN Some((sum(scores) * Unit) \div Len(scores))
        ELSE None

\* get_average_score(): the mean of the scores of the completed steps that
\* have one, or None
get_average_score(self) ==
    LET infos == StepSeq(self)
        scored == SelectSeq(infos, LAMBDA info : info.completed
                                                 /\ info.score # None)
        scores == [i \in 1..Len(scored) |-> scored[i].score[1]]
    IN  IF scores # <<>> THEN Some((sum(scores) * Unit) \div Len(scores))
        ELSE None

\* mutant: the steps that were never given partial progress
get_incomplete_steps_untouched(self) ==
    SelectSeq(self.step_order,
              LAMBDA step : ~self.steps[step].completed
                            /\ self.steps[step].partial_progress = 0)

\* get_incomplete_steps(): [step for step, info in self.steps.items()
\* if not info['completed']]
get_incomplete_steps(self) ==
    SelectSeq(self.step_order, LAMBDA step : ~self.steps[step].completed)

\* get_current_step(): incomplete[0] if incomplete else None
get_current_step(self) ==
    LET incomplete == get_incomplete_steps(self)
    IN  IF incomplete # <<>> THEN Some(incomplete[1]) ELSE None

\* ------------------------------------------------------------ shell steps
\* What subprocess.run did: it returned (kind "completed", with the exit
\* code and the captured stdout), raised TimeoutExpired ("timeout") or raised
\* another exception ("error").
Completed(returncode, stdout) ==
    [kind |-> "completed", returncode |-> returncode, stdout |-> stdout]
TimedOut == [kind |-> "timeout", returncode |-> 0, stdout |-> ""]
LaunchError == [kind |-> "error", returncode |-> 0, stdout |-> ""]

\* "expected_output in result.stdout" for the outputs of the model, which
\* are a single word or empty
str_in(needle, haystack) == needle = "" \/ needle = haystack

\* mutant: a timeout counts as an attempt
run_shell_step_timeout_counts(w, step_name, result, expected_output, auto_mark_complete) ==
    LET w0 == IF step_name \notin DOMAIN w.self.step_start_times
              THEN [w EXCEPT !.self.step_start_times = (step_name :> w.now) @@ @]
              ELSE w
    IN  CASE result.kind = "completed" ->
                LET success ==
                        IF result.returncode = 0
                           /\ expected_output # None /\ expected_output # Some("")
                        THEN str_in(expected_output[1], result.stdout)
                        ELSE result.returncode = 0
                    w1 == record_analytics_event(w0, "shell_command", step_name,
                              [returncode |-> result.returncode,
                               success |-> success])
                    w2 == IF success /\ auto_mark_complete
                             /\ step_name \in DOMAIN w1.self.steps
                          THEN mark_done(w1, step_name, Some(100),
                                   "Shell command executed successfully")
                          ELSE IF ~success /\ step_name \in DOMAIN w1.self.steps
                          THEN auto_save_progress(
                                   [w1 EXCEPT !.self.steps[step_name].attempts = @ + 1])
                          ELSE w1
                IN  [w2 EXCEPT !.ret = IF success THEN "True" ELSE "False"]
          [] result.kind = "timeout" ->
                LET w1 == record_analytics_event(w0, "shell_timeout", step_name,
                                                 NoKwargs)
                    w2 == IF step_name \in DOMAIN w1.self.steps
                          THEN [w1 EXCEPT !.self.steps[step_name].attempts = @ + 1]
                          ELSE w1
                IN  [w2 EXCEPT !.ret = "False"]
          [] result.kind = "error" ->
                [record_analytics_event(w0, "shell_error", step_name, NoKwargs)
                    EXCEPT !.ret = "False"]

\* run_shell_step(step_name, command, expected_output, ..., auto_mark_complete)
\* where result is what running the command did
run_shell_step(w, step_name, result, expected_output, auto_mark_complete) ==
    LET w0 == IF step_name \notin DOMAIN w.self.step_start_times
              THEN [w EXCEPT !.self.step_start_times = (step_name :> w.now) @@ @]
              ELSE w
    IN  CASE result.kind = "completed" ->
                LET success ==
                        IF result.returncode = 0
                           /\ expected_output # None /\ expected_output # Some("")
                        THEN str_in(expected_output[1], result.stdout)
                        ELSE result.returncode = 0
                    w1 == record_analytics_event(w0, "shell_command", step_name,
                              [returncode |-> result.returncode,
                               success |-> success])
                    w2 == IF success /\ auto_mark_complete
                             /\ step_name \in DOMAIN w1.self.steps
                          THEN mark_done(w1, step_name, Some(100),
                                   "Shell command executed successfully")
                          ELSE IF ~success /\ step_name \in DOMAIN w1.self.steps
                          THEN auto_save_progress(
                                   [w1 EXCEPT !.self.steps[step_name].attempts = @ + 1])
                          ELSE w1
                IN  [w2 EXCEPT !.ret = IF success THEN "True" ELSE "False"]
          [] result.kind = "timeout" ->
                [record_analytics_event(w0, "shell_timeout", step_name, NoKwargs)
                    EXCEPT !.ret = "False"]
          [] result.kind = "error" ->
                [record_analytics_event(w0, "shell_error", step_name, NoKwargs)
                    EXCEPT !.ret = "False"]

\* f"{step_name}_cmd_{i}"
cmd_step_name(step_name, i) == step_name \o "_cmd_" \o ToString(i)

\* mutant: the loop goes on after a failed command whatever stop_on_error is
RECURSIVE sequence_loop_never_stops(_, _, _, _, _)
sequence_loop_never_stops(acc, step_name, results, stop_on_error, i) ==
    IF i > Len(results) THEN acc
    ELSE LET w1 == run_shell_step(acc.w, cmd_step_name(step_name, i),
                                  results[i], None, FALSE)
         IN  IF w1.ret = "True"
             THEN sequence_loop_never_stops(
                      [w |-> w1, all_successful |-> acc.all_successful,
                       successful_count |-> acc.successful_count + 1],
                      step_name, results, stop_on_error, i + 1)
             ELSE sequence_loop_never_stops(
                      [w |-> w1, all_successful |-> FALSE,
                       successful_count |-> acc.successful_count],
                      step_name, results, stop_on_error, i + 1)

\* the for loop of run_shell_sequence from command i on: the world, the
\* all_successful flag and the successful_count when the loop ends
RECURSIVE sequence_loop(_, _, _, _, _)
sequence_loop(acc, step_name, results, stop_on_error, i) ==
    IF i > Len(results) THEN acc
    ELSE LET w1 == run_shell_step(acc.w, cmd_step_name(step_name, i),
                                  results[i], None, FALSE)
         IN  IF w1.ret = "True"
             THEN sequence_loop([w |-> w1, all_successful |-> acc.all_successful,
                                 successful_count |-> acc.successful_count + 1],
                                step_name, results, stop_on_error, i + 1)
             ELSE IF stop_on_error
             THEN [w |-> w1, all_successful |-> FALSE,
                   successful_count |-> acc.successful_count]
             ELSE sequence_loop([w |-> w1, all_successful |-> FALSE,
                                 successful_count |-> acc.successful_count],
                                step_name, results, stop_on_error, i + 1)

\* mutant: every command that did not succeed counts as an attempt
run_shell_sequence_attempt_per_failure(w, step_name, results, stop_on_error) ==
    LET end == sequence_loop([w |-> w, all_successful |-> TRUE,
                              successful_count |-> 0],
                             step_name, results, stop_on_error, 1)
        w1 == IF end.all_successful /\ step_name \in DOMAIN end.w.self.steps
              THEN mark_done(end.w, step_name, Some(100),
                       "All " \o ToString(Len(results))
                           \o " shell commands executed successfully")
              ELSE IF step_name \in DOMAIN end.w.self.steps
              THEN auto_save_progress(
                       [end.w EXCEPT
                           !.self.steps[step_name].attempts =
                               @ + Len(results) - end.successful_count,
                           !.self.steps[step_name].partial_progress =
                               ((end.successful_count * Unit) \div Len(results)) * 100])
              ELSE end.w
    IN  [w1 EXCEPT !.ret = IF end.all_successful THEN "True" ELSE "False"]

\* run_shell_sequence(step_name, commands, ..., stop_on_error) where
\* results[i] is what running commands[i] does
run_shell_sequence(w, step_name, results, stop_on_error) ==
    LET end == sequence_loop([w |-> w, all_successful |-> TRUE,
                              successful_count |-> 0],
                             step_name, results, stop_on_error, 1)
        w1 == IF end.all_successful /\ step_name \in DOMAIN end.w.self.steps
              THEN mark_done(end.w, step_name, Some(100),
                       "All " \o ToString(Len(results))
                           \o " shell commands executed successfully")
              ELSE IF step_name \in DOMAIN end.w.self.steps
              THEN auto_save_progress(
                       [end.w EXCEPT
                           !.self.steps[step_name].attempts = @ + 1,
                           !.self.steps[step_name].partial_progress =
                               ((end.successful_count * Unit) \div Len(results)) * 100])
              ELSE end.w
    IN  [w1 EXCEPT !.ret = IF end.all_successful THEN "True" ELSE "False"]

\* ------------------------------------------------- construction and resume
\* the assignments of _load_progress from 'if session_id in data' on; a
\* malformed start time of a step raises in the last of them, after the
\* others were made
load_optional_keys(w, data) ==
    LET w1 == IF "session_id" \in DOMAIN data
              THEN [w EXCEPT !.self.previous_session_id = Some(data.session_id)]
              ELSE w
        w2 == IF "student_id" \in DOMAIN data
              THEN [w1 EXCEPT !.self.student_id = data.student_id]
              ELSE w1
        w3 == IF "analytics_data" \in DOMAIN data
              THEN [w2 EXCEPT !.self.analytics_data = data.analytics_data]
              ELSE w2
    IN  IF "step_start_times" \in DOMAIN data
           /\ \A k \in DOMAIN data.step_start_times :
                  is_isoformat(data.step_start_times[k])
        THEN [w3 EXCEPT !.self.step_start_times =
                 [k \in DOMAIN data.step_start_times |->
                     fromisoformat(data.step_start_times[k])]]
        ELSE w3

\* mutant: the student id of the file is not taken over
load_progress_keep_student(w) ==
    LET text == w.fs[w.self.persist_file].text
        data == json_load(text)
    IN  IF ~json_parses(text) \/ "steps" \notin DOMAIN data
        THEN w
        ELSE LET w1 == [w EXCEPT !.self.steps = data.steps,
                                 !.self.step_order = data.step_order]
             IN  IF "start_time" \notin DOMAIN data
                    \/ ~is_isoformat(data.start_time)
                 THEN w1
                 ELSE [load_optional_keys(
                          [w1 EXCEPT
                              !.self.start_time = fromisoformat(data.start_time),
                              !.self.is_resumed = TRUE], data)
                       EXCEPT !.self.student_id = w.self.student_id]

\* mutant: the steps of the file are added to the steps given to the
\* constructor
load_progress_merges_steps(w) ==
    LET text == w.fs[w.self.persist_file].text
        data == json_load(text)
    IN  IF ~json_parses(text) \/ "steps" \notin DOMAIN data
        THEN w
        ELSE LET w1 == [w EXCEPT
                          !.self.steps = data.steps @@ @,
                          !.self.step_order =
                              data.step_order \o
                              SelectSeq(@, LAMBDA n : n \notin DOMAIN data.steps)]
             IN  IF "start_time" \notin DOMAIN data
                    \/ ~is_isoformat(data.start_time)
                 THEN w1
                 ELSE load_optional_keys(
                          [w1 EXCEPT
                              !.self.start_time = fromisoformat(data.start_time),
                              !.self.is_resumed = TRUE], data)

\* _load_progress(): the try block runs until a statement raises (json.load
\* on a text that is not JSON, KeyError on data['steps'] or
\* data['start_time'], ValueError in fromisoformat); the except clause
\* prints and keeps what was assigned so far
load_progress(w) ==
    LET text == w.fs[w.self.persist_file].text
        data == json_load(text)
    IN  IF ~json_parses(text) \/ "steps" \notin DOMAIN data
        THEN w
        ELSE LET w1 == [w EXCEPT !.self.steps = data.steps,
                                 !.self.step_order = data.step_order]
             IN  IF "start_time" \notin DOMAIN data
                    \/ ~is_isoformat(data.start_time)
                 THEN w1
                 ELSE load_optional_keys(
                          [w1 EXCEPT
                              !.self.start_time = fromisoformat(data.start_time),
                              !.self.is_resumed = TRUE], data)

\* the steps argument of the constructor: a list of names, or a dict
StepList(names) == [kind |-> "list", step_order |-> names,
                    steps |-> [n \in Range(names) |-> ZeroStep]]
StepDict(steps, step_order) == [kind |-> "dict", step_order |-> step_order,
                                steps |-> steps]

\* LabProgress(steps, lab_name, persist, persist_file, auto_save).  A dict
\* of steps is taken as it is: its records have every field already.
\* previous_session_id is None while the attribute does not exist.
LabProgress(w, steps, lab_name, persist, persist_file, auto_save) ==
    LET w1 == [w EXCEPT
                 !.uuid = @ + 1,
                 !.self = [lab_name |-> lab_name,
                           persist |-> persist,
                           auto_save |-> auto_save,
                           persist_file |->
                               IF persist_file # None /\ persist_file # Some("")
                               THEN persist_file[1]
                               ELSE default_persist_file(lab_name),
                           session_id |-> isoformat(w.now),
                           student_id |-> uuid4(w.uuid + 1),
                           analytics_data |-> <<>>,
                           step_start_times |-> [k \in {} |-> 0],
                           steps |-> steps.steps,
                           step_order |-> steps.step_order,
                           start_time |-> w.now,
                           is_resumed |-> FALSE,
                           previous_session_id |-> None]]
        w2 == IF persist /\ w1.fs[w1.self.persist_file].exists
              THEN load_progress(w1)
              ELSE w1
    IN  [w2 EXCEPT !.self.start_time = w.now,
                   !.self.is_resumed = FALSE,
                   !.ret = "LabProgress"]

\* Path('.').glob('.*.json'): the dot-prefixed JSON files that exist
progress_files(w) == {p \in Paths : w.fs[p].exists /\ is_dot_json(p)}

\* mutant: lab_name=data['lab_name'] is not passed on, so the constructor's
\* default "Lab" names the resumed tracker
resume_default_lab_name(w, lab_name, persist_file, glob_first) ==
    LET no_args == (persist_file = None \/ persist_file = Some(""))
                   /\ (lab_name = None \/ lab_name = Some(""))
        path == IF no_args THEN glob_first
                ELSE IF persist_file = None \/ persist_file = Some("")
                THEN default_persist_file(lab_name[1])
                ELSE persist_file[1]
    IN  IF no_args /\ progress_files(w) = {}
        THEN [w EXCEPT !.ret = "ValueError"]
        ELSE IF ~w.fs[path].exists
        THEN [w EXCEPT !.ret = "FileNotFoundError"]
        ELSE IF ~json_parses(w.fs[path].text)
        THEN [w EXCEPT !.ret = "JSONDecodeError"]
        ELSE IF "steps" \notin DOMAIN json_load(w.fs[path].text)
        THEN [w EXCEPT !.ret = "KeyError"]
        ELSE LET data == json_load(w.fs[path].text)
             IN  LabProgress(w, StepDict(data.steps, data.step_order),
                             "Lab", TRUE, Some(path), TRUE)

\* mutant: a path that names no file yields a default tracker on that path
\* instead of an error
resume_default_tracker(w, lab_name, persist_file, glob_first) ==
    LET no_args == (persist_file = None \/ persist_file = Some(""))
                   /\ (lab_name = None \/ lab_name = Some(""))
        path == IF no_args THEN glob_first
                ELSE IF persist_file = None \/ persist_file = Some("")
                THEN default_persist_file(lab_name[1])
                ELSE persist_file[1]
    IN  IF ~w.fs[path].exists
        THEN LabProgress(w, StepList(<<>>), "Lab One", TRUE, Some(path), TRUE)
        ELSE IF ~json_parses(w.fs[path].text)
        THEN [w EXCEPT !.ret = "JSONDecodeError"]
        ELSE IF "steps" \notin DOMAIN json_load(w.fs[path].text)
        THEN [w EXCEPT !.ret = "KeyError"]
        ELSE LET data == json_load(w.fs[path].text)
             IN  LabProgress(w, StepDict(data.steps, data.step_order),
                             data.lab_name, TRUE, Some(path), TRUE)

\* LabProgress.resume(lab_name, persist_file); glob_first is the file the
\* directory listing names first when the files are searched for.  The
\* json.load and data['steps'] of resume itself are in no try block.
resume(w, lab_name, persist_file, glob_first) ==
    LET no_args == (persist_file = None \/ persist_file = Some(""))
                   /\ (lab_name = None \/ lab_name = Some(""))
        path == IF no_args THEN glob_first
                ELSE IF persist_file = None \/ persist_file = Some("")
                THEN default_persist_file(lab_name[1])
                ELSE persist_file[1]
    IN  IF no_args /\ progress_files(w) = {}
        THEN [w EXCEPT !.ret = "ValueError"]
        ELSE IF ~w.fs[path].exists
        THEN [w EXCEPT !.ret = "FileNotFoundError"]
        ELSE IF ~json_parses(w.fs[path].text)
        THEN [w EXCEPT !.ret = "JSONDecodeError"]
        ELSE IF "steps" \notin DOMAIN json_load(w.fs[path].text)
        THEN [w EXCEPT !.ret = "KeyError"]
        ELSE LET data == json_load(w.fs[path].text)
             IN  LabProgress(w, StepDict(data.steps, data.step_order),
                             data.lab_name, TRUE, Some(path), TRUE)

\* ------------------------------------------------------------ LabValidator
\* The scoring rules of validator.LabValidator and run_auto_grading.  A
\* score is a number of points (0 to 100), a weight is counted in tenths,
\* and final_score in hundredths of a point.  The description of a rule is
\* text that is only displayed and is left out.

\* the weight 1.0
WeightOne == 10

\* What calling the checker of a rule does: a callable returns a bool or a
\* (success, score) tuple or raises; for a dict checker
\* _run_dict_validation returns a bool.
ReturnsBool(success) == [kind |-> "bool", success |-> success, score |-> 0]
ReturnsTuple(success, score) ==
    [kind |-> "tuple", success |-> success, score |-> score]
Raises == [kind |-> "raises", success |-> FALSE, score |-> 0]
DictValidation(success) == [kind |-> "dict", success |-> success, score |-> 0]

\* LabValidator(): no rules, no history.  scoring_rules is a dict: its keys
\* in insertion order are rule_order.
LabValidator ==
    [scoring_rules |-> [n \in {} |-> None], rule_order |-> <<>>,
     validation_history |-> <<>>]

\* add_scoring_rule(name, weight, checker, description, partial_credit)
add_scoring_rule(v, name, weight, checker, partial_credit) ==
    [v EXCEPT !.scoring_rules =
                  (name :> [weight |-> weight, checker |-> checker,
                            partial_credit |-> partial_credit,
                            last_score |-> None, last_result |-> None]) @@ @,
              !.rule_order = IF name \in DOMAIN v.scoring_rules THEN @
                             ELSE Append(@, name)]

\* 100 if success else 0
pass_fail(success) == IF success THEN 100 ELSE 0

\* validate_with_score(rule_name): the validator it leaves and the
\* (success, score) it returns
validate_with_score(v, now, rule_name) ==
    IF rule_name \notin DOMAIN v.scoring_rules
    THEN [v |-> v, success |-> FALSE, score |-> 0]
    ELSE LET rule == v.scoring_rules[rule_name]
             checker == rule.checker
         IN  IF checker.kind = "raises"
             THEN [v |-> [v EXCEPT
                            !.scoring_rules[rule_name].last_score = Some(0),
                            !.scoring_rules[rule_name].last_result = Some(FALSE)],
                   success |-> FALSE, score |-> 0]
             ELSE LET success == checker.success
                      returned == IF checker.kind = "tuple" THEN checker.score
                                  ELSE pass_fail(success)
                      score == IF ~rule.partial_credit THEN pass_fail(success)
                               ELSE returned
                  IN  [v |-> [v EXCEPT
                                !.scoring_rules[rule_name].last_score = Some(score),
                                !.scoring_rules[rule_name].last_result =
                                    Some(success),
                                !.validation_history =
                                    Append(@, [rule |-> rule_name,
                                               score |-> score,
                                               success |-> success,
                                               timestamp |-> now])],
                       success |-> success, score |-> score]

\* mutant: the loop ends at the first rule whose checker raises
RECURSIVE grading_loop_stops_at_error(_, _, _)
grading_loop_stops_at_error(acc, now, i) ==
    IF i > Len(acc.v.rule_order) THEN acc
    ELSE LET rule_name == acc.v.rule_order[i]
             rule == acc.v.scoring_rules[rule_name]
             r == validate_with_score(acc.v, now, rule_name)
             weighted_score == r.score * rule.weight
         IN  IF rule.checker.kind = "raises" THEN acc
             ELSE grading_loop_stops_at_error(
                 [v |-> r.v,
                  results |-> (rule_name :> [score |-> r.score,
                                             weighted_score |-> weighted_score,
                                             weight |-> rule.weight,
                                             success |-> r.success])
                              @@ acc.results,
                  total_score |-> acc.total_score + weighted_score,
                  total_weight |-> acc.total_weight + rule.weight],
                 now, i + 1)

\* the for loop of run_auto_grading from the i-th rule on: the validator,
\* the results dict and the two totals when the loop ends
RECURSIVE grading_loop(_, _, _)
grading_loop(acc, now, i) ==
    IF i > Len(acc.v.rule_order) THEN acc
    ELSE LET rule_name == acc.v.rule_order[i]
             rule == acc.v.scoring_rules[rule_name]
             r == validate_with_score(acc.v, now, rule_name)
             weighted_score == r.score * rule.weight
         IN  grading_loop(
                 [v |-> r.v,
                  results |-> (rule_name :> [score |-> r.score,
                                             weighted_score |-> weighted_score,
                                             weight |-> rule.weight,
                                             success |-> r.success])
                              @@ acc.results,
                  total_score |-> acc.total_score + weighted_score,
                  total_weight |-> acc.total_weight + rule.weight],
                 now, i + 1)

\* mutant: the total is not divided by the total weight
run_auto_grading_plain_sum(v, now) ==
    LET end == grading_loop([v |-> v, results |-> [n \in {} |-> None],
                             total_score |-> 0, total_weight |-> 0], now, 1)
        final_score == IF end.total_weight > 0
                       THEN (end.total_score * Unit) \div WeightOne
                       ELSE 0
    IN  [v |-> end.v,
         ret |-> [final_score |-> final_score,
                  total_weight |-> end.total_weight,
                  detailed_results |-> end.results,
                  timestamp |-> isoformat(now)]]

\* run_auto_grading(): the validator it leaves and the report it returns
run_auto_grading(v, now) ==
    LET end == grading_loop([v |-> v, results |-> [n \in {} |-> None],
                             total_score |-> 0, total_weight |-> 0], now, 1)
        final_score == IF end.total_weight > 0
                       THEN (end.total_score * Unit) \div end.total_weight
                       ELSE 0
    IN  [v |-> end.v,
         ret |-> [final_score |-> final_score,
                  total_weight |-> end.total_weight,
                  detailed_results |-> end.results,
                  timestamp |-> isoformat(now)]]

\* ---------------------------------------------------------------- inputs
KnownSteps == <<"A", "B">>
\* a name no tracker of the model registers
UnknownStep == "X"

EmptyFs == [p \in Paths |-> NoFile]

\* the world a call starts in
World == [self |-> tracker, fs |-> fs, now |-> clock, uuid |-> uuid_count,
          saved |-> saved, ret |-> "None"]

\* the constructor calls that open the first session
FirstSessions ==
    { <<TRUE, Some("custom.json"), TRUE>>,
      <<TRUE, Some("custom.json"), FALSE>>,
      <<FALSE, None, TRUE>> }

\* the constructor calls of a later session: another lab name on the same
\* file, other steps on the same file, the default file, no persistence, no
\* steps, a dict of steps one of which has a score and is not completed
LaterSessions ==
    { <<StepList(<< >>), "Lab Two", FALSE, None, TRUE>>,
      <<StepDict([s \in {"A", "B"} |->
                    IF s = "A" THEN [ZeroStep EXCEPT !.score = Some(80)]
                               ELSE ZeroStep], <<"A", "B">>),
        "Lab Two", FALSE, None, TRUE>>,
      <<StepList(<<"A", "B">>), "Lab Two", TRUE, Some("custom.json"), TRUE>>,
      <<StepList(<<"B", "C">>), "Lab One", TRUE, Some("custom.json"), TRUE>>,
      <<StepList(<<"A", "B">>), "Lab One", TRUE, None, TRUE>>,
      <<StepList(<<"A", "B">>), "Lab One", FALSE, None, TRUE>> }

\* (lab_name, persist_file) of the resume calls
ResumeCalls ==
    { <<None, None>>, <<Some("Lab One"), None>>,
      <<None, Some("custom.json")>>, <<None, Some(".lab_one_progress.json")>> }

\* (step, score, notes) of the mark_done calls
MarkDoneCalls ==
    ({"A", "B"} \X {None, Some(90)} \X {"", "done"})
        \cup {<<UnknownStep, Some(90), "done">>}

\* (step, progress, notes, checkpoint_name) of the mark_partial calls
MarkPartialCalls ==
    ({"A", "B"} \X {-20, 70, 150} \X {""} \X {None, Some("half")})
        \cup {<<"A", 70, "part", None>>, <<"B", 70, "part", None>>,
              <<"A", 70, "", Some("")>>,
              <<UnknownStep, 70, "part", Some("half")>>}

\* (result, expected_output, auto_mark_complete) of the run_shell_step calls
ShellCalls ==
    { <<Completed(0, "ok"), Some("ok"), TRUE>>,
      <<Completed(0, "ok"), None, FALSE>>,
      <<Completed(0, ""), Some("ok"), TRUE>>,
      <<Completed(1, ""), None, TRUE>>,
      <<TimedOut, None, TRUE>>,
      <<LaunchError, None, TRUE>> }

\* (results, stop_on_error) of the run_shell_sequence calls: what each
\* command of the list does, and the flag
SequenceCalls ==
    { <<<< >>, TRUE>>,
      <<<<Completed(0, "ok")>>, TRUE>>,
      <<<<Completed(1, "")>>, TRUE>>,
      <<<<Completed(0, "ok"), Completed(0, "ok")>>, TRUE>>,
      <<<<Completed(0, "ok"), Completed(1, "")>>, TRUE>>,
      <<<<Completed(0, "ok"), TimedOut>>, FALSE>>,
      <<<<Completed(1, ""), Completed(0, "ok")>>, TRUE>>,
      <<<<Completed(1, ""), Completed(0, "ok")>>, FALSE>>,
      <<<<Completed(1, ""), Completed(1, "")>>, FALSE>> }

\* what can be wrong with a persist file when _load_progress reads it: the
\* text is not JSON, the 'steps' or 'start_time' key is missing, the start
\* time or the start time of a step is not an ISO timestamp
Damages == {"not_json", "no_steps", "no_start_time", "bad_start_time",
            "bad_step_start_time"}

\* a string fromisoformat() rejects
BadTimestamp == <<"yesterday">>

damage(text, kind) ==
    CASE kind = "not_json" -> NotJson
      [] kind = "no_steps" -> [k \in DOMAIN text \ {"steps"} |-> text[k]]
      [] kind = "no_start_time" ->
             [k \in DOMAIN text \ {"start_time"} |-> text[k]]
      [] kind = "bad_start_time" -> [text EXCEPT !.start_time = BadTimestamp]
      [] kind = "bad_step_start_time" ->
             [text EXCEPT !.step_start_times =
                 [k \in DOMAIN @ |-> BadTimestamp]]

\* ------------------------------------------------------------------ actions
\* the state after a call: w is the world it leaves, c the call made
Returns(w, c) ==
    /\ tracker' = w.self
    /\ fs' = w.fs
    /\ uuid_count' = w.uuid
    /\ saved' = w.saved
    /\ clock' = clock + 1
    /\ call' = [c EXCEPT !.ret = w.ret]
    /\ history' = IF w.ret = "LabProgress" THEN <<>>
                  ELSE Append(history, [c EXCEPT !.ret = w.ret])
    /\ UNCHANGED <<validator, report>>

Calling(op, step, args) == [op |-> op, step |-> step, args |-> args, ret |-> "None"]

\* Before the first session of the model: nothing on disk, or the file an
\* earlier session left, which marked A done and B partly done (at the
\* clock readings -3 to -1)
NoSession ==
    [self |-> <<>>, fs |-> EmptyFs, now |-> 0, uuid |-> 0,
     saved |-> [p \in Paths |-> None], ret |-> "None"]

EarlierSession ==
    LET w0 == LabProgress([NoSession EXCEPT !.now = -3], StepList(KnownSteps),
                          "Lab One", TRUE, Some("custom.json"), TRUE)
        w1 == mark_done([w0 EXCEPT !.now = -2], "A", Some(90), "done")
        w2 == mark_partial([w1 EXCEPT !.now = -1], "B", 70, "", Some("half"))
    IN  [w2 EXCEPT !.now = 0, !.ret = "None"]

Init ==
    \E a \in FirstSessions, before \in {NoSession, EarlierSession} :
        LET w == LabProgress(before,
                             StepList(KnownSteps), "Lab One", a[1], a[2], a[3])
        IN  /\ tracker = w.self
            /\ fs = w.fs
            /\ uuid_count = w.uuid
            /\ saved = w.saved
            /\ history = <<>>
            /\ clock = 1
            /\ validator = LabValidator
            /\ report = None
            /\ call = [Calling("__init__", "",
                               [steps |-> StepList(KnownSteps),
                                lab_name |-> "Lab One", persist |-> a[1],
                                persist_file |-> a[2], auto_save |-> a[3]])
                       EXCEPT !.ret = w.ret]

Construct ==
    /\ clock <= MaxClock
    /\ \E a \in LaterSessions :
          Returns(LabProgress(World, a[1], a[2], a[3], a[4], a[5]),
                  Calling("__init__", "",
                          [steps |-> a[1], lab_name |-> a[2], persist |-> a[3],
                           persist_file |-> a[4], auto_save |-> a[5]]))

Resume ==
    /\ clock <= MaxClock
    /\ \E c \in ResumeCalls, glob_first \in Paths :
          /\ glob_first \in progress_files(World) \/ progress_files(World) = {}
          /\ Returns(resume(World, c[1], c[2], glob_first),
                     Calling("resume", "",
                             [lab_name |-> c[1], persist_file |-> c[2]]))

MarkDone ==
    /\ clock <= MaxClock
    /\ \E c \in MarkDoneCalls :
          Returns(mark_done(World, c[1], c[2], c[3]),
                  Calling("mark_done", c[1], [score |-> c[2], notes |-> c[3]]))

MarkPartial ==
    /\ clock <= MaxClock
    /\ \E c \in MarkPartialCalls :
          Returns(mark_partial(World, c[1], c[2], c[3], c[4]),
                  Calling("mark_partial", c[1],
                          [progress |-> c[2], notes |-> c[3],
                           checkpoint_name |-> c[4]]))

IncrementAttempts ==
    /\ clock <= MaxClock
    /\ \E step \in {"A", "B", UnknownStep} :
          Returns(increment_attempts(World, step),
                  Calling("increment_attempts", step, NoKwargs))

ResetStep ==
    /\ clock <= MaxClock
    /\ \E step \in {"A", "B", UnknownStep} :
          Returns(reset_step(World, step), Calling("reset_step", step, NoKwargs))

ResetAll ==
    /\ clock <= MaxClock
    /\ Returns(reset_all(World), Calling("reset_all", "", NoKwargs))

RunShellStep ==
    /\ clock <= MaxClock
    /\ \E step \in {"A", "B", UnknownStep}, c \in ShellCalls :
          /\ step = UnknownStep => c[1].kind = "completed" /\ c[2] = None
          /\ Returns(run_shell_step(World, step, c[1], c[2], c[3]),
                  Calling("run_shell_step", step,
                          [result |-> c[1], expected_output |-> c[2],
                           auto_mark_complete |-> c[3]]))

RunShellSequence ==
    /\ clock <= MaxClock
    /\ \E step \in {"A", "B", UnknownStep}, c \in SequenceCalls :
          /\ step = UnknownStep => Len(c[1]) = 1
          /\ Returns(run_shell_sequence(World, step, c[1], c[2]),
                     Calling("run_shell_sequence", step,
                             [results |-> c[1], stop_on_error |-> c[2]]))

\* between two calls the file a tracker wrote is cut short or edited
\* (another program, another version, the user)
DamageFile ==
    /\ clock <= MaxClock
    /\ \E p \in Paths, kind \in Damages :
          /\ fs[p].exists
          /\ saved[p] # None
          /\ kind = "bad_step_start_time"
                 => DOMAIN fs[p].text.step_start_times # {}
          /\ Returns([World EXCEPT !.fs[p] = File(damage(fs[p].text, kind)),
                                   !.saved[p] = None],
                     Calling("damage", p, [kind |-> kind]))

Next ==
    \/ Construct
    \/ Resume
    \/ MarkDone
    \/ MarkPartial
    \/ IncrementAttempts
    \/ ResetStep
    \/ ResetAll
    \/ RunShellStep
    \/ RunShellSequence
    \/ DamageFile

Spec == Init /\ [][Next]_vars

\* ------------------------------------------------- the validator's calls
\* (name, weight, checker, partial_credit) of the add_scoring_rule calls:
\* the rules weighted 0.5 / 0.3 / 0.2 that score 100 / 0 / 50, the same
\* names with checkers that raise, with pass/fail scoring, with weight 0,
\* with a score given to a failure
AddRuleCalls ==
    { <<"r1", 5, ReturnsTuple(TRUE, 100), TRUE>>,
      <<"r1", 0, ReturnsBool(TRUE), TRUE>>,
      <<"r1", 5, DictValidation(TRUE), TRUE>>,
      <<"r2", 3, ReturnsBool(FALSE), TRUE>>,
      <<"r2", 3, Raises, TRUE>>,
      <<"r2", 0, Raises, TRUE>>,
      <<"r3", 2, ReturnsTuple(TRUE, 50), TRUE>>,
      <<"r3", 2, ReturnsTuple(TRUE, 50), FALSE>>,
      <<"r3", 2, ReturnsTuple(FALSE, 40), TRUE>>,
      <<"r3", 2, ReturnsTuple(FALSE, 40), FALSE>> }

\* a rule name no add_scoring_rule call of the model uses
UnknownRule == "r0"

\* a validator of its own: no tracker is attached and none is needed, since
\* LabProgress has no set_overall_score for run_auto_grading to call
GradingInit ==
    /\ validator = LabValidator
    /\ report = None
    /\ clock = 1
    /\ call = Calling("LabValidator", "", NoKwargs)
    /\ tracker = NoSession.self
    /\ fs = NoSession.fs
    /\ uuid_count = NoSession.uuid
    /\ saved = NoSession.saved
    /\ history = <<>>

\* the state after a call on the validator
GradingReturns(v, r, c) ==
    /\ validator' = v
    /\ report' = r
    /\ clock' = clock + 1
    /\ call' = c
    /\ UNCHANGED <<tracker, fs, uuid_count, saved, history>>

AddScoringRule ==
    /\ clock <= MaxGradingCalls
    /\ \E c \in AddRuleCalls :
          GradingReturns(add_scoring_rule(validator, c[1], c[2], c[3], c[4]),
                         report,
                         Calling("add_scoring_rule", c[1],
                                 [weight |-> c[2], checker |-> c[3],
                                  partial_credit |-> c[4]]))

ValidateWithScore ==
    /\ clock <= MaxGradingCalls
    /\ \E rule_name \in {"r1", "r2", "r3", UnknownRule} :
          LET r == validate_with_score(validator, clock, rule_name)
          IN  GradingReturns(r.v, report,
                  [Calling("validate_with_score", rule_name, NoKwargs)
                      EXCEPT !.ret = <<r.success, r.score>>])

RunAutoGrading ==
    /\ clock <= MaxGradingCalls
    /\ LET r == run_auto_grading(validator, clock)
       IN  GradingReturns(r.v, Some(r.ret),
                          [Calling("run_auto_grading", "", NoKwargs)
                              EXCEPT !.ret = "dict"])

GradingNext ==
    \/ AddScoringRule
    \/ ValidateWithScore
    \/ RunAutoGrading

GradingSpec == GradingInit /\ [][GradingNext]_vars

\* ------------------------------------------------------------------ claims
\* the step named by the last call is in the registry
KnownCall == call.step \in DOMAIN tracker.steps

\* the events of a log that have the given type and step
EventsOf(log, event_type, step_name) ==
    {i \in 1..Len(log) : log[i].event_type = event_type
                         /\ log[i].step_name = step_name}

\* C1: mark_done, mark_partial and increment_attempts with a name that is
\* not a key of the step registry change nothing: not the registry, the
\* analytics log or the step start times (all of the tracker is unchanged),
\* not the files, and the call returns None (raises nothing).
C1_UnknownStepIsNoOp ==
    [][ (/\ call'.op \in {"mark_done", "mark_partial", "increment_attempts"}
         /\ call'.step \notin DOMAIN tracker.steps)
        => /\ tracker' = tracker
           /\ fs' = fs
           /\ call'.ret = "None" ]_vars

\* C1 happens: such a call was made on a tracker that has recorded events
C1_Witness ==
    /\ call.op \in {"mark_done", "mark_partial", "increment_attempts"}
    /\ call.step \notin DOMAIN tracker.steps
    /\ history # <<>>
    /\ tracker.analytics_data # <<>>

\* C2: every step's partial_progress is a number in [0.0, 1.0] in every
\* reachable state (every write is clamped).
C2_PartialProgressInRange ==
    \A s \in DOMAIN tracker.steps :
        /\ tracker.steps[s].partial_progress >= 0
        /\ tracker.steps[s].partial_progress <= Unit

\* the last call constructed a tracker that loaded its persist file, which
\* was as a tracker had written it
Loaded ==
    /\ call.op \in {"__init__", "resume"}
    /\ call.ret = "LabProgress"
    /\ tracker.persist
    /\ fs[tracker.persist_file].exists
    /\ saved[tracker.persist_file] # None

\* the tracker that wrote the file the live tracker persists to, as it was
\* at the time of that save
Saver == saved[tracker.persist_file][1]

\* C3 as stated: a tracker that has just loaded a file has the steps,
\* lab_name, session_id and student_id of the tracker that saved it.
C3_RoundTripAsStated ==
    Loaded => /\ tracker.steps = Saver.steps
              /\ tracker.lab_name = Saver.lab_name
              /\ tracker.session_id = Saver.session_id
              /\ tracker.student_id = Saver.student_id

\* C3 amended: a tracker that has just loaded a file has the steps and the
\* student_id of the tracker that saved it, and holds the saver's session_id
\* as its _previous_session_id; its lab_name is the saver's when it was
\* made by resume.
C3_RoundTrip ==
    Loaded => /\ tracker.steps = Saver.steps
              /\ tracker.student_id = Saver.student_id
              /\ tracker.previous_session_id = Some(Saver.session_id)
              /\ call.op = "resume" => tracker.lab_name = Saver.lab_name

\* C3 happens: a file saved with a completed step was loaded by a tracker
\* of a later session
C3_Witness ==
    /\ Loaded
    /\ \E s \in DOMAIN Saver.steps : Saver.steps[s].completed
    /\ Saver.session_id # tracker.session_id

\* every call made on the live tracker so far was mark_done or mark_partial,
\* and one of them named a step of the registry
OnlyMarkCalls ==
    /\ \A i \in 1..Len(history) : history[i].op \in {"mark_done", "mark_partial"}
    /\ \E i \in 1..Len(history) : history[i].step \in DOMAIN tracker.steps

C5_ResumedFlagSet ==
    (call.op = "resume" /\ call.ret = "LabProgress") => tracker.is_resumed

\* C6: right after a tracker is constructed with persist=True where no file
\* existed (so nothing was loaded), the persist file exists and holds the
\* tracker's session_id and a last_saved field.
C6_ConstructorWritesFile ==
    (/\ call.op = "__init__"
     /\ tracker.persist
     /\ tracker.previous_session_id = None)
    => /\ fs[tracker.persist_file].exists
       /\ fs[tracker.persist_file].text.session_id = tracker.session_id
       /\ "last_saved" \in DOMAIN fs[tracker.persist_file].text

\* C7: with persist and auto_save, when mark_done, mark_partial,
\* increment_attempts or reset_step on a step of the registry has returned,
\* the lab_name and the steps in the persist file are those in memory.
C7_FileFollowsMemory ==
    (/\ call.op \in {"mark_done", "mark_partial", "increment_attempts",
                     "reset_step"}
     /\ KnownCall
     /\ tracker.persist /\ tracker.auto_save)
    => /\ fs[tracker.persist_file].exists
       /\ json_load(fs[tracker.persist_file].text).lab_name = tracker.lab_name
       /\ json_load(fs[tracker.persist_file].text).steps = tracker.steps

\* C7 happens: a tracker named "Lab Two", constructed on the file a "Lab
\* One" session left, has made such a call
C7_Witness ==
    /\ call.op \in {"mark_done", "mark_partial", "increment_attempts",
                    "reset_step"}
    /\ KnownCall
    /\ tracker.persist /\ tracker.auto_save
    /\ tracker.lab_name = "Lab Two"
    /\ tracker.previous_session_id # None

\* C8: every completed step has a timestamp; a step that reset_step (or
\* reset_all) has just reset is not completed and has no timestamp.
C8_CompletedHasTimestamp ==
    /\ \A s \in DOMAIN tracker.steps :
          tracker.steps[s].completed => tracker.steps[s].timestamp # None
    /\ (call.op = "reset_step" /\ KnownCall)
          => /\ ~tracker.steps[call.step].completed
             /\ tracker.steps[call.step].timestamp = None
    /\ call.op = "reset_all"
          => \A s \in DOMAIN tracker.steps :
                /\ ~tracker.steps[s].completed
                /\ tracker.steps[s].timestamp = None

\* C8 happens: a step that this session completed was reset while another
\* step is completed
C8_Witness ==
    /\ call.op = "reset_step" /\ KnownCall
    /\ EventsOf(tracker.analytics_data, "step_completed", call.step) # {}
    /\ \E s \in DOMAIN tracker.steps : tracker.steps[s].completed

\* C9: after mark_partial(step, p) on a step of the registry the stored
\* partial_progress is 1 for p above 1, 0 for p below 0, and p otherwise.
C9_PartialIsClamped ==
    (call.op = "mark_partial" /\ KnownCall)
    => tracker.steps[call.step].partial_progress
          = IF call.args.progress > Unit THEN Unit
            ELSE IF call.args.progress < 0 THEN 0
            ELSE call.args.progress

\* C9 happens: a progress below 0 was given for a step that had progress
C9_Witness ==
    /\ call.op = "mark_partial" /\ KnownCall
    /\ call.args.progress < 0
    /\ tracker.steps[call.step].checkpoints # <<>>
    /\ tracker.steps[call.step].checkpoints[1].progress > 0

\* C10: mark_done(step, score, notes) on a step of the registry, whatever
\* the step's record was, sets completed, sets the timestamp to now, stores
\* the given score (None when none is given), replaces the notes only by
\* non-empty notes, and appends exactly one event, a step_completed event
\* for that step.
C10_MarkDoneEffect ==
    [][ (call'.op = "mark_done" /\ call'.step \in DOMAIN tracker.steps)
        => /\ tracker'.steps[call'.step].completed
           /\ tracker'.steps[call'.step].timestamp = Some(isoformat(clock))
           /\ tracker'.steps[call'.step].score = call'.args.score
           /\ tracker'.steps[call'.step].notes
                 = IF call'.args.notes # "" THEN call'.args.notes
                   ELSE tracker.steps[call'.step].notes
           /\ tracker'.analytics_data
                 = Append(tracker.analytics_data,
                          tracker'.analytics_data[Len(tracker.analytics_data) + 1])
           /\ tracker'.analytics_data[Len(tracker'.analytics_data)].event_type
                 = "step_completed"
           /\ tracker'.analytics_data[Len(tracker'.analytics_data)].step_name
                 = call'.step
      ]_vars

\* C10 happens: a step completed with a score and notes was marked done
\* again without either; the score is gone, the notes are kept
C10_Witness ==
    /\ call.op = "mark_done" /\ KnownCall
    /\ call.args.score = None /\ call.args.notes = ""
    /\ \E i \in EventsOf(tracker.analytics_data, "step_completed", call.step) :
          /\ i < Len(tracker.analytics_data)
          /\ tracker.analytics_data[i].score # None
          /\ tracker.analytics_data[i].notes # ""
    /\ tracker.steps[call.step].score = None
    /\ tracker.steps[call.step].notes # ""

\* C11: resume() fails instead of returning a default tracker.  With
\* neither lab_name nor persist_file and no dot-prefixed .json file in the
\* directory it raises ValueError; with a persist_file, or a path derived
\* from lab_name, that names no file it raises FileNotFoundError.  Either
\* way the live tracker is left as it was, no new tracker is constructed
\* (no uuid is drawn) and no file is written.
C11_ResumeFailsExplicitly ==
    [][ call'.op = "resume" =>
        LET lab_name == call'.args.lab_name
            persist_file == call'.args.persist_file
            no_args == lab_name = None /\ persist_file = None
            path == IF persist_file # None THEN persist_file[1]
                    ELSE default_persist_file(lab_name[1])
            nothing_done == /\ tracker' = tracker
                            /\ fs' = fs
                            /\ uuid_count' = uuid_count
        IN  /\ (no_args /\ \A p \in Paths : is_dot_json(p) => ~fs[p].exists)
                  => call'.ret = "ValueError" /\ nothing_done
            /\ (~no_args /\ ~fs[path].exists)
                  => call'.ret = "FileNotFoundError" /\ nothing_done ]_vars

\* C11 happens: both failures were raised on the same tracker, which had
\* a file of another name on disk
C11_Witness ==
    /\ call.op = "resume"
    /\ call.ret = "FileNotFoundError"
    /\ \E i \in 1..Len(history) : history[i].op = "resume"
                                  /\ history[i].ret = "ValueError"
    /\ \E p \in Paths : fs[p].exists

\* the last call was a constructor with persist=True whose persist file
\* existed
ConstructedOnFile ==
    /\ call.op = "__init__"
    /\ call.ret = "LabProgress"
    /\ call.args.persist
    /\ fs[tracker.persist_file].exists

\* how far the load of that file gets before a statement raises: the text
\* is JSON with a 'steps' key; and it has a well-formed 'start_time'; and
\* every start time of a step is well-formed
FileText == fs[tracker.persist_file].text
StepsLoad == json_parses(FileText) /\ "steps" \in DOMAIN FileText
StartTimeLoads ==
    /\ StepsLoad
    /\ "start_time" \in DOMAIN FileText
    /\ is_isoformat(FileText.start_time)
StepStartTimesLoad ==
    /\ StartTimeLoads
    /\ "step_start_times" \in DOMAIN FileText
          => \A k \in DOMAIN FileText.step_start_times :
                 is_isoformat(FileText.step_start_times[k])

\* the fields the load assigns: whether the tracker holds what the claim
\* says of field f after a load that failed (the loaded value when the
\* assignment was reached, the constructor's value otherwise)
LoadedFields == {"steps", "start_time", "is_resumed", "previous_session_id",
                 "student_id", "analytics_data", "step_start_times"}

AfterFailedLoad(f) ==
    CASE f = "steps" ->
             tracker.steps = IF StepsLoad THEN json_load(FileText).steps
                             ELSE call.args.steps.steps
      [] f = "start_time" ->
             tracker.start_time = IF StartTimeLoads
                                  THEN fromisoformat(FileText.start_time)
                                  ELSE clock - 1
      [] f = "is_resumed" -> tracker.is_resumed = StartTimeLoads
      [] f = "previous_session_id" ->
             tracker.previous_session_id
                 = IF StartTimeLoads /\ "session_id" \in DOMAIN FileText
                   THEN Some(FileText.session_id) ELSE None
      [] f = "student_id" ->
             tracker.student_id
                 = IF StartTimeLoads /\ "student_id" \in DOMAIN FileText
                   THEN FileText.student_id ELSE uuid4(uuid_count)
      [] f = "analytics_data" ->
             tracker.analytics_data
                 = IF StartTimeLoads /\ "analytics_data" \in DOMAIN FileText
                   THEN FileText.analytics_data ELSE <<>>
      [] f = "step_start_times" -> DOMAIN tracker.step_start_times = {}

\* C12: when a tracker is constructed with persist=True and the load of
\* the existing persist file fails at any point, the constructor returns
\* the tracker (nothing is raised); every field the load assigned before
\* the failure holds the loaded value and every other field holds the value
\* the constructor gave it (lab_name, session_id and persist_file among
\* them).
C12_FailedLoadKeepsAssigned ==
    (ConstructedOnFile /\ ~StepStartTimesLoad)
    => /\ tracker.lab_name = call.args.lab_name
       /\ tracker.session_id = isoformat(clock - 1)
       /\ tracker.persist_file = call.args.persist_file[1]
       /\ \A f \in LoadedFields : AfterFailedLoad(f)

\* C13: reset_step(step) on a step of the registry, whatever the step's
\* record was, leaves it with completed False, timestamp None, attempts 0,
\* score None, notes "", partial_progress 0.0 and no checkpoints, and leaves
\* every other step's record as it was; after reset_all every step has
\* that record, get_completion_rate() is 0 and get_current_step() is the
\* first step of the registry.
C13_ResetRestoresZeroState ==
    [][ LET zero == [completed |-> FALSE, timestamp |-> None, attempts |-> 0,
                     score |-> None, notes |-> "", partial_progress |-> 0,
                     checkpoints |-> <<>>]
        IN  /\ (call'.op = "reset_step" /\ call'.step \in DOMAIN tracker.steps)
               => /\ DOMAIN tracker'.steps = DOMAIN tracker.steps
                  /\ tracker'.steps[call'.step] = zero
                  /\ \A s \in DOMAIN tracker.steps \ {call'.step} :
                         tracker'.steps[s] = tracker.steps[s]
            /\ call'.op = "reset_all"
               => /\ DOMAIN tracker'.steps = DOMAIN tracker.steps
                  /\ \A s \in DOMAIN tracker.steps : tracker'.steps[s] = zero
                  /\ get_completion_rate(tracker') = 0
                  /\ tracker.step_order # <<>>
                        => get_current_step(tracker')
                               = Some(tracker.step_order[1]) ]_vars

\* C13 happens: on a tracker that loaded a completed step A and a partly
\* done step B with a checkpoint, reset_step("A") was called and then
\* reset_all, which found B as it was loaded
C13_Witness ==
    /\ call.op = "reset_all"
    /\ Len(history) = 2
    /\ history[1].op = "reset_step" /\ history[1].step = "A"
    /\ tracker.previous_session_id # None
    /\ ~tracker.auto_save
    /\ saved[tracker.persist_file] # None
    /\ Saver.steps["A"].completed
    /\ Saver.steps["B"].checkpoints # <<>>
    /\ \A s \in DOMAIN tracker.steps : ~tracker.steps[s].completed

\* s is a prefix of t
IsPrefix(s, t) == Len(s) <= Len(t) /\ \A i \in 1..Len(s) : t[i] = s[i]

\* the last call was made on the live tracker (it did not replace it)
SameTracker == call.ret # "LabProgress"

\* C14: a step's checkpoint sequence is append-only.  Across every call
\* on a tracker other than reset_step of that step and reset_all, the
\* sequence before the call is a prefix of the sequence after it; it is
\* one entry longer after mark_partial on that step with a non-empty
\* checkpoint_name, and as long as before after every other call.
C14_CheckpointsAppendOnly ==
    [][ SameTracker' =>
        \A s \in DOMAIN tracker.steps :
            LET before == tracker.steps[s].checkpoints
                after == tracker'.steps[s].checkpoints
                resets == \/ call'.op = "reset_all"
                          \/ call'.op = "reset_step" /\ call'.step = s
                adds == /\ call'.op = "mark_partial"
                        /\ call'.step = s
                        /\ call'.args.checkpoint_name # None
                        /\ call'.args.checkpoint_name # Some("")
            IN  /\ s \in DOMAIN tracker'.steps
                /\ ~resets => /\ IsPrefix(before, after)
                              /\ Len(after) = Len(before) + (IF adds THEN 1 ELSE 0)
      ]_vars

\* C14 happens: a step that had a checkpoint got a second one, and the
\* first is still in its place
C14_Witness ==
    /\ call.op = "mark_partial"
    /\ KnownCall
    /\ call.args.checkpoint_name = Some("half")
    /\ Len(tracker.steps[call.step].checkpoints) = 2
    /\ tracker.steps[call.step].checkpoints[1].timestamp
           # tracker.steps[call.step].checkpoints[2].timestamp

\* the steps whose record the last call changed, and the step names of
\* the events it appended
ChangedSteps ==
    {s \in DOMAIN tracker.steps : tracker'.steps[s] # tracker.steps[s]}
NamedByNewEvents ==
    {tracker'.analytics_data[i].step_name :
        i \in (Len(tracker.analytics_data) + 1)..Len(tracker'.analytics_data)}

\* C15: every call that changes the record of a step (mark_done,
\* mark_partial, increment_attempts, reset_step, reset_all, a failed
\* run_shell_step, a failed run_shell_sequence) appends at least one event
\* naming that step to the analytics log during the call, and no call
\* shortens the log.
C15_EventWithEveryMutation ==
    [][ SameTracker' =>
           /\ IsPrefix(tracker.analytics_data, tracker'.analytics_data)
           /\ ChangedSteps \subseteq NamedByNewEvents ]_vars

\* C15 amended: no call shortens or rewrites the log, and mark_done,
\* mark_partial, increment_attempts, run_shell_step (its failed attempt
\* included) and a run_shell_sequence that succeeds append an event naming
\* the step whose record they change.  reset_step and reset_all append
\* nothing, and the events of a failed run_shell_sequence name its
\* commands ("<step>_cmd_<i>"), never the parent step whose attempts and
\* partial_progress it changes.
C15_EventsOfMutations ==
    [][ SameTracker' =>
           LET unrecorded ==
                   \/ call'.op \in {"reset_step", "reset_all"}
                   \/ call'.op = "run_shell_sequence" /\ call'.ret = "False"
           IN  /\ IsPrefix(tracker.analytics_data, tracker'.analytics_data)
               /\ ~unrecorded => ChangedSteps \subseteq NamedByNewEvents
               /\ call'.op \in {"reset_step", "reset_all"}
                     => tracker'.analytics_data = tracker.analytics_data
               /\ (call'.op = "run_shell_sequence" /\ call'.ret = "False")
                     => call'.step \notin NamedByNewEvents ]_vars

\* C15 happens: a step was marked done and then reset; the log still ends
\* with the event of the mark_done and has none for the reset
C15_Witness ==
    /\ call.op = "reset_step"
    /\ KnownCall
    /\ Len(history) = 2
    /\ history[1].op = "mark_done" /\ history[1].step = call.step
    /\ ~tracker.steps[call.step].completed
    /\ tracker.analytics_data # <<>>
    /\ tracker.analytics_data[Len(tracker.analytics_data)].event_type
           = "step_completed"

\* position of a step in the registry (insertion order)
Position(step) == CHOOSE i \in 1..Len(tracker.step_order) : tracker.step_order[i] = step

\* the steps of the registry that are not completed
Incomplete == {s \in DOMAIN tracker.steps : ~tracker.steps[s].completed}

\* get_incomplete_steps() lists exactly the steps that are not completed,
\* each once, in registry order; get_current_step() is the first of them
\* in registry order, and None exactly when every step is completed
GettersAgreeWithRegistry ==
    LET incomplete == get_incomplete_steps(tracker)
        current == get_current_step(tracker)
    IN  /\ Range(incomplete) = Incomplete
        /\ Len(incomplete) = Cardinality(Incomplete)
        /\ \A i, j \in 1..Len(incomplete) :
               i < j => Position(incomplete[i]) < Position(incomplete[j])
        /\ current = None <=> Incomplete = {}
        /\ current # None =>
               /\ current[1] \in Incomplete
               /\ \A s \in Incomplete : Position(current[1]) <= Position(s)

\* C16: in every reachable state get_incomplete_steps() returns exactly
\* the steps with completed False in registry order and get_current_step()
\* the first of them, or None exactly when every step is completed; and
\* mark_done on a step changes the current step of no tracker in which an
\* earlier step is incomplete.
C16_IncompleteAndCurrent ==
    /\ []GettersAgreeWithRegistry
    /\ [][ (/\ call'.op = "mark_done"
            /\ call'.step \in DOMAIN tracker.steps
            /\ \E e \in Incomplete : Position(e) < Position(call'.step))
           => get_current_step(tracker') = get_current_step(tracker) ]_vars

\* C16 happens: the second step of the registry was marked done while the
\* first is incomplete and stays the current step
C16_Witness ==
    /\ call.op = "mark_done"
    /\ Len(tracker.step_order) = 2
    /\ call.step = tracker.step_order[2]
    /\ tracker.steps[call.step].completed
    /\ get_current_step(tracker) = Some(tracker.step_order[1])
    /\ get_incomplete_steps(tracker) = <<tracker.step_order[1]>>

\* C17: in every reachable state get_completion_rate() is the number of
\* completed steps divided by the number of steps, times 100 (to the
\* precision of the model's numbers: hundredths of the quotient), is 0 for
\* a tracker without steps, and lies in [0, 100].
C17_CompletionRate ==
    LET n == Cardinality(DOMAIN tracker.steps)
        done == Cardinality(DOMAIN tracker.steps \ Incomplete)
        rate == get_completion_rate(tracker)
    IN  /\ n = 0 => rate = 0
        /\ rate * n <= done * 100 * Unit
        /\ n > 0 => done * 100 * Unit < (rate + 100) * n
        /\ rate >= 0
        /\ rate <= 100 * Unit

\* C17 happens: one of two steps is completed and the rate is 50.0
C17_Witness ==
    /\ Cardinality(DOMAIN tracker.steps) = 2
    /\ Cardinality(Incomplete) = 1
    /\ get_completion_rate(tracker) = 50 * Unit
    /\ call.op \in {"mark_done", "run_shell_step", "run_shell_sequence"}

\* the completed steps that have a score, and the sum of the scores of a
\* set of them
Scored == {s \in DOMAIN tracker.steps : /\ tracker.steps[s].completed
                                        /\ tracker.steps[s].score # None}

RECURSIVE ScoreSum(_)
ScoreSum(S) ==
    IF S = {} THEN 0
    ELSE LET s == CHOOSE x \in S : TRUE
         IN  tracker.steps[s].score[1] + ScoreSum(S \ {s})

\* C18: in every reachable state get_average_score() is None when no step
\* is completed with a score, and otherwise the mean of the scores of
\* exactly the steps that are completed and have a score (to the precision
\* of the model's numbers); no other step contributes.
C18_AverageScore ==
    LET avg == get_average_score(tracker)
        n == Cardinality(Scored)
    IN  /\ avg = None <=> Scored = {}
        /\ avg # None => /\ avg[1] * n <= ScoreSum(Scored) * Unit
                         /\ ScoreSum(Scored) * Unit < (avg[1] + 1) * n

\* C18 happens: of two completed steps one has the score 90 and the other
\* none; the average is 90.0
C18_Witness ==
    /\ \A s \in DOMAIN tracker.steps : tracker.steps[s].completed
    /\ \E s \in DOMAIN tracker.steps : tracker.steps[s].score = None
    /\ \E s \in DOMAIN tracker.steps : tracker.steps[s].score = Some(90)
    /\ get_average_score(tracker) = Some(90 * Unit)

\* the events the last call appended to the log
NewEvents ==
    SubSeq(tracker'.analytics_data, Len(tracker.analytics_data) + 1,
           Len(tracker'.analytics_data))

\* C19: run_shell_step on a step of the registry returns True or False and
\* raises nothing.  A command that exits non-zero, or whose output lacks
\* the expected output, returns False and raises the step's attempts by
\* exactly 1; a timeout and a launch or execution error return False and
\* leave attempts as they were; and the call appends exactly one event, of
\* type shell_command, shell_timeout and shell_error respectively, naming
\* the step.
C19_ShellStepOutcomes ==
    [][ (call'.op = "run_shell_step" /\ call'.step \in DOMAIN tracker.steps) =>
        LET step == call'.step
            result == call'.args.result
            expected == call'.args.expected_output
            failed == /\ result.kind = "completed"
                      /\ \/ result.returncode # 0
                         \/ /\ expected \notin {None, Some("")}
                            /\ expected[1] # result.stdout
            one_event(type) == /\ Len(NewEvents) = 1
                               /\ NewEvents[1].event_type = type
                               /\ NewEvents[1].step_name = step
            attempts_raised_by(n) ==
                tracker'.steps[step].attempts = tracker.steps[step].attempts + n
        IN  /\ call'.ret \in {"True", "False"}
            /\ failed => /\ call'.ret = "False"
                         /\ attempts_raised_by(1)
                         /\ one_event("shell_command")
            /\ result.kind = "timeout" => /\ call'.ret = "False"
                                          /\ attempts_raised_by(0)
                                          /\ one_event("shell_timeout")
            /\ result.kind = "error" => /\ call'.ret = "False"
                                        /\ attempts_raised_by(0)
                                        /\ one_event("shell_error") ]_vars

\* C19 happens: on the same step a command exited non-zero and the next
\* timed out; the step has one attempt and the log ends with the two events
C19_Witness ==
    /\ call.op = "run_shell_step"
    /\ KnownCall
    /\ call.args.result.kind = "timeout"
    /\ call.ret = "False"
    /\ Len(history) = 2
    /\ history[1].op = "run_shell_step" /\ history[1].step = call.step
    /\ history[1].args.result.kind = "completed"
    /\ history[1].args.result.returncode # 0
    /\ tracker.steps[call.step].attempts = 1
    /\ Len(tracker.analytics_data) >= 2
    /\ tracker.analytics_data[Len(tracker.analytics_data)].event_type
           = "shell_timeout"
    /\ tracker.analytics_data[Len(tracker.analytics_data) - 1].event_type
           = "shell_command"

\* C20: run_shell_sequence on a step of the registry marks it completed,
\* as mark_done(score=100) does, if and only if every command of the list
\* succeeded (exited with 0), and returns True exactly then; when a command
\* fails the call leaves the step's completed flag, timestamp and score as
\* they were and raises its attempts by exactly 1, however many commands
\* failed.
C20_SequenceMarksDoneIffAllSucceed ==
    [][ (call'.op = "run_shell_sequence" /\ call'.step \in DOMAIN tracker.steps) =>
        LET step == call'.step
            results == call'.args.results
            all_succeeded == \A i \in 1..Len(results) :
                                 /\ results[i].kind = "completed"
                                 /\ results[i].returncode = 0
            before == tracker.steps[step]
            after == tracker'.steps[step]
        IN  /\ call'.ret = IF all_succeeded THEN "True" ELSE "False"
            /\ all_succeeded => /\ after.completed
                                /\ after.timestamp = Some(isoformat(clock))
                                /\ after.score = Some(100)
                                /\ after.attempts = before.attempts
            /\ ~all_succeeded => /\ after.completed = before.completed
                                 /\ after.timestamp = before.timestamp
                                 /\ after.score = before.score
                                 /\ after.attempts = before.attempts + 1 ]_vars

\* C20 happens: both commands of a list failed, all were run, and the
\* step, not completed, has one attempt
C20_Witness ==
    /\ call.op = "run_shell_sequence"
    /\ KnownCall
    /\ call.ret = "False"
    /\ Len(call.args.results) = 2
    /\ \A i \in 1..2 : \/ call.args.results[i].kind # "completed"
                       \/ call.args.results[i].returncode # 0
    /\ ~call.args.stop_on_error
    /\ Len(history) = 1
    /\ ~tracker.steps[call.step].completed
    /\ tracker.steps[call.step].attempts = 1

\* a command of a sequence failed: it did not exit with 0
CommandFailed(result) == result.kind # "completed" \/ result.returncode # 0

\* the event type run_shell_step records for what a command did
ShellEventType(result) ==
    CASE result.kind = "completed" -> "shell_command"
      [] result.kind = "timeout" -> "shell_timeout"
      [] result.kind = "error" -> "shell_error"

\* C21: run_shell_sequence executes the commands in list order (each
\* executed command leaves its event, named "<step>_cmd_<i>", in the log in
\* that order); with stop_on_error=True the commands up to and including
\* the first failing one are executed and none after it, with
\* stop_on_error=False every command of the list is executed.
C21_SequenceOrderAndStop ==
    [][ call'.op = "run_shell_sequence" =>
        LET results == call'.args.results
            failing == {i \in 1..Len(results) : CommandFailed(results[i])}
            last == IF call'.args.stop_on_error /\ failing # {}
                    THEN CHOOSE i \in failing : \A j \in failing : i <= j
                    ELSE Len(results)
            executed == SelectSeq(NewEvents,
                            LAMBDA e : e.event_type \in {"shell_command",
                                           "shell_timeout", "shell_error"})
        IN  /\ Len(executed) = last
            /\ \A i \in 1..last :
                  /\ executed[i].step_name = cmd_step_name(call'.step, i)
                  /\ executed[i].event_type = ShellEventType(results[i]) ]_vars

\* C21 happens: of a list whose first command fails and whose second
\* would succeed, only the first was run under stop_on_error=True
C21_Witness ==
    /\ call.op = "run_shell_sequence"
    /\ KnownCall
    /\ call.args.stop_on_error
    /\ Len(call.args.results) = 2
    /\ CommandFailed(call.args.results[1])
    /\ ~CommandFailed(call.args.results[2])
    /\ Len(tracker.analytics_data) = 1
    /\ tracker.analytics_data[1].step_name = cmd_step_name(call.step, 1)

\* the last call was run_auto_grading, and the report it returned
Graded == call.op = "run_auto_grading" /\ report # None
Report == report[1]

\* the sum of weight x score, and of the weights, over a set of rules
RECURSIVE WeightedSum(_)
WeightedSum(S) ==
    IF S = {} THEN 0
    ELSE LET r == CHOOSE x \in S : TRUE
         IN  validator.scoring_rules[r].weight * Report.detailed_results[r].score
                 + WeightedSum(S \ {r})

RECURSIVE WeightSum(_)
WeightSum(S) ==
    IF S = {} THEN 0
    ELSE LET r == CHOOSE x \in S : TRUE
         IN  validator.scoring_rules[r].weight + WeightSum(S \ {r})

\* C22: the final_score run_auto_grading returns is the sum over all rules
\* of weight x score divided by the sum of the weights (to the precision of
\* the model's numbers), and 0 when the total weight is 0; when the
\* weights sum to 1 it is the plain weighted sum; a rule with
\* partial_credit=False has the score 100 or 0.
C22_FinalScoreIsWeightedMean ==
    Graded =>
        LET rules == DOMAIN validator.scoring_rules
            total == WeightedSum(rules)
            weights == WeightSum(rules)
            final_score == Report.final_score
        IN  /\ weights = 0 => final_score = 0
            /\ weights > 0 => /\ final_score * weights <= total * Unit
                              /\ total * Unit < (final_score + 1) * weights
            /\ weights = WeightOne => final_score * WeightOne = total * Unit
            /\ \A r \in rules :
                   ~validator.scoring_rules[r].partial_credit
                       => Report.detailed_results[r].score \in {0, 100}

\* C22 happens: rules weighted 0.5 / 0.3 / 0.2 scored 100 / 0 / 50 and the
\* final score is 60
C22_Witness ==
    /\ Graded
    /\ DOMAIN validator.scoring_rules = {"r1", "r2", "r3"}
    /\ validator.scoring_rules["r1"].weight = 5
    /\ validator.scoring_rules["r2"].weight = 3
    /\ validator.scoring_rules["r3"].weight = 2
    /\ Report.detailed_results["r1"].score = 100
    /\ Report.detailed_results["r2"].score = 0
    /\ Report.detailed_results["r3"].score = 50
    /\ Report.final_score = 60 * Unit

\* the validator without the rule r
WithoutRule(r) ==
    [validator EXCEPT
        !.scoring_rules = [n \in DOMAIN validator.scoring_rules \ {r} |-> @[n]],
        !.rule_order = SelectSeq(@, LAMBDA n : n # r)]

\* C23: run_auto_grading returns its report also when a checker raises;
\* the report has one entry per registered rule; the entry of a rule whose
\* checker raised has score 0 and success False and its weight is part of
\* total_weight; every other rule has the score it gets when the grading
\* is run without the raising rule.
C23_RaisingCheckerIsIsolated ==
    [][ call'.op = "run_auto_grading" =>
        LET rules == DOMAIN validator.scoring_rules
            raising == {r \in rules :
                           validator.scoring_rules[r].checker.kind = "raises"}
            results == report'[1].detailed_results
        IN  /\ call'.ret = "dict"
            /\ report' # None
            /\ DOMAIN results = rules
            /\ report'[1].total_weight = WeightSum(rules)
            /\ \A r \in raising :
                  /\ results[r].score = 0
                  /\ ~results[r].success
                  /\ results[r].weight = validator.scoring_rules[r].weight
                  /\ validator'.scoring_rules[r].last_score = Some(0)
                  /\ validator'.scoring_rules[r].last_result = Some(FALSE)
                  /\ \A o \in rules \ {r} :
                         results[o].score =
                             run_auto_grading(WithoutRule(r), clock)
                                 .ret.detailed_results[o].score ]_vars

\* C23 happens: of three rules the second has a checker that raises and a
\* weight of 0.3; the rules before and after it scored 100 and 50
C23_Witness ==
    /\ Graded
    /\ validator.rule_order = <<"r1", "r2", "r3">>
    /\ validator.scoring_rules["r2"].checker.kind = "raises"
    /\ validator.scoring_rules["r2"].weight = 3
    /\ Report.detailed_results["r2"].score = 0
    /\ ~Report.detailed_results["r2"].success
    /\ Report.detailed_results["r1"].score = 100
    /\ Report.detailed_results["r3"].score = 50
    /\ Report.total_weight = WeightOne

\* the last call made a tracker (the constructor with persist=True, or
\* resume) whose load of the existing persist file got to the student_id
\* the file holds
LoadedStudentId ==
    /\ call.op \in {"__init__", "resume"}
    /\ call.ret = "LabProgress"
    /\ tracker.persist
    /\ fs[tracker.persist_file].exists
    /\ StartTimeLoads
    /\ "student_id" \in DOMAIN FileText

\* C24: a tracker that has loaded a persist file holding a student_id has
\* that student_id; no later call on the tracker changes it, and every
\* event the tracker records carries it.
C24_StudentIdStable ==
    /\ [](LoadedStudentId => tracker.student_id = FileText.student_id)
    /\ [][ SameTracker' =>
              /\ tracker'.student_id = tracker.student_id
              /\ \A i \in 1..Len(NewEvents) :
                     NewEvents[i].student_id = tracker.student_id ]_vars

\* C24 happens: a tracker of a later session, whose constructor drew the
\* second student id or a later one, holds the first session's id and has
\* recorded an event with it
C24_Witness ==
    /\ call.op = "mark_done"
    /\ KnownCall
    /\ tracker.previous_session_id # None
    /\ uuid_count >= 2
    /\ tracker.student_id = uuid4(1)
    /\ tracker.analytics_data[Len(tracker.analytics_data)].student_id = uuid4(1)
    /\ tracker.analytics_data[Len(tracker.analytics_data)].session_id
           = tracker.session_id
    /\ tracker.analytics_data[1].session_id # tracker.session_id

\* C25: mark_partial(step, p, checkpoint_name=c) with a non-empty c on a
\* step of the registry appends a checkpoint named c whose progress is the
\* argument p as given; for p below 0.0 or above 1.0 it differs from the
\* partial_progress the step then has, for p in [0.0, 1.0] it equals it.
C25_CheckpointHoldsRawProgress ==
    [][ (/\ call'.op = "mark_partial"
         /\ call'.step \in DOMAIN tracker.steps
         /\ call'.args.checkpoint_name \notin {None, Some("")})
        => LET p == call'.args.progress
               after == tracker'.steps[call'.step]
               added == after.checkpoints[Len(after.checkpoints)]
           IN  /\ Len(after.checkpoints)
                      = Len(tracker.steps[call'.step].checkpoints) + 1
               /\ added.name = call'.args.checkpoint_name[1]
               /\ added.progress = p
               /\ (p < 0 \/ p > Unit) => added.progress # after.partial_progress
               /\ (p >= 0 /\ p <= Unit) => added.progress = after.partial_progress
      ]_vars

\* C25 happens: a checkpoint was made with progress 1.5 on a step whose
\* partial_progress is then 1.0
C25_Witness ==
    /\ call.op = "mark_partial"
    /\ KnownCall
    /\ call.args.checkpoint_name = Some("half")
    /\ call.args.progress > Unit
    /\ tracker.steps[call.step].partial_progress = Unit
    /\ tracker.steps[call.step].checkpoints
           [Len(tracker.steps[call.step].checkpoints)].progress
               = call.args.progress

\* C26: a step's start time is write-once.  mark_partial on a step of the
\* registry without a start time records the time of the call when
\* progress > 0 and records nothing when progress <= 0, and it records
\* under no other name; and no call on a tracker (mark_partial, mark_done,
\* reset_step and reset_all of the step among them) changes or removes a
\* start time the tracker has.
C26_StartTimeWriteOnce ==
    [][ SameTracker' =>
        LET before == tracker.step_start_times
            after == tracker'.step_start_times
        IN  /\ \A k \in DOMAIN before : k \in DOMAIN after /\ after[k] = before[k]
            /\ (call'.op = "mark_partial" /\ call'.step \in DOMAIN tracker.steps)
               => /\ DOMAIN after \subseteq DOMAIN before \cup {call'.step}
                  /\ call'.step \notin DOMAIN before =>
                        IF call'.args.progress > 0
                        THEN /\ call'.step \in DOMAIN after
                             /\ after[call'.step] = clock
                        ELSE call'.step \notin DOMAIN after ]_vars

\* C26 happens: a step got its start time from a mark_partial and was then
\* reset; the start time is the one recorded two calls ago
C26_Witness ==
    /\ call.op \in {"reset_step", "reset_all"}
    /\ Len(history) = 2
    /\ history[1].op = "mark_partial"
    /\ history[1].step \in DOMAIN tracker.steps
    /\ history[1].args.progress > 0
    /\ tracker.previous_session_id = None
    /\ tracker.steps[history[1].step] = ZeroStep
    /\ history[1].step \in DOMAIN tracker.step_start_times
    /\ tracker.step_start_times[history[1].step] = clock - 2

\* C27: in every reachable state every key of step_start_times is the
\* name of a step of the registry.
C27_StartTimesOfRegisteredSteps ==
    DOMAIN tracker.step_start_times \subseteq DOMAIN tracker.steps

\* C28: when a tracker is constructed with persist=True and the persist
\* file exists and loads without error, its step registry is that of the
\* file, names, order and records; nothing of the steps argument is kept.
C28_FileStepsReplaceArgument ==
    (ConstructedOnFile /\ StepStartTimesLoad)
    => /\ tracker.steps = json_load(FileText).steps
       /\ tracker.step_order = json_load(FileText).step_order
       /\ \A i \in 1..Len(FileText.steps) :
              /\ tracker.step_order[i] = FileText.steps[i][1]
              /\ tracker.steps[tracker.step_order[i]] = FileText.steps[i][2]

\* C28 happens: the constructor was given the steps B and C and the file
\* held A, completed, and B
C28_Witness ==
    /\ ConstructedOnFile
    /\ StepStartTimesLoad
    /\ call.args.steps.step_order = <<"B", "C">>
    /\ tracker.step_order = <<"A", "B">>
    /\ tracker.steps["A"].completed

\* C29: completion is monotonic up to reset.  Across every call on a
\* tracker (mark_done, mark_partial, increment_attempts, run_shell_step,
\* run_shell_sequence, failing or not, on any step) a completed step stays
\* completed unless the call is reset_step of that step or reset_all; and
\* no call changes the set of step names or their order.
C29_CompletionMonotonicUpToReset ==
    [][ SameTracker' =>
           /\ tracker'.step_order = tracker.step_order
           /\ DOMAIN tracker'.steps = DOMAIN tracker.steps
           /\ \A s \in DOMAIN tracker.steps :
                  LET resets == \/ call'.op = "reset_all"
                                \/ call'.op = "reset_step" /\ call'.step = s
                  IN  (tracker.steps[s].completed /\ ~resets)
                      => tracker'.steps[s].completed ]_vars

\* C29 happens: step A, completed in the first call on the tracker, was
\* then the step of a failing call (partial progress below 1, or a command
\* list with a failing command) and is still completed
C29_Witness ==
    /\ Len(history) = 2
    /\ history[1].op = "mark_done"
    /\ history[1].step = "A"
    /\ call.step = "A"
    /\ \/ call.op = "mark_partial" /\ call.args.progress = 70
       \/ call.op = "run_shell_sequence" /\ call.ret = "False"
    /\ tracker.steps["A"].completed
    /\ tracker.steps["B"].completed = FALSE

\* C30: each mutating operation on a known step changes only the fields it
\* is about and only that step.  mark_partial leaves the step's completed,
\* timestamp, score and attempts as they were; mark_done leaves its
\* partial_progress, attempts and checkpoints as they were;
\* increment_attempts raises attempts by exactly 1 and leaves every other
\* field as it was; and none of the three changes the record of any other
\* step.
C30_OperationsChangeOnlyTheirFields ==
    [][ (/\ SameTracker'
         /\ call'.op \in {"mark_partial", "mark_done", "increment_attempts"}
         /\ call'.step \in DOMAIN tracker.steps)
        => LET before == tracker.steps[call'.step]
               after == tracker'.steps[call'.step]
           IN  /\ \A s \in DOMAIN tracker.steps \ {call'.step} :
                      tracker'.steps[s] = tracker.steps[s]
               /\ call'.op = "mark_partial"
                  => /\ after.completed = before.completed
                     /\ after.timestamp = before.timestamp
                     /\ after.score = before.score
                     /\ after.attempts = before.attempts
               /\ call'.op = "mark_done"
                  => /\ after.partial_progress = before.partial_progress
                     /\ after.attempts = before.attempts
                     /\ after.checkpoints = before.checkpoints
               /\ call'.op = "increment_attempts"
                  => /\ after.attempts = before.attempts + 1
                     /\ after = [before EXCEPT !.attempts = @ + 1] ]_vars

\* C30 happens: mark_done on a step that had partial progress 0.7 and a
\* checkpoint, or mark_partial or increment_attempts on a completed, scored
\* step, while the other step has a record of its own
C30_Witness ==
    /\ Len(history) = 2
    /\ call.step = "A"
    /\ history[1].step = "A"
    /\ tracker.steps["B"] # ZeroStep
    /\ \/ /\ history[1].op = "mark_partial"
          /\ call.op = "mark_done"
          /\ tracker.steps["A"].partial_progress = 70
          /\ Len(tracker.steps["A"].checkpoints) > 0
          /\ tracker.steps["A"].completed
       \/ /\ history[1].op = "mark_done"
          /\ call.op \in {"mark_partial", "increment_attempts"}
          /\ tracker.steps["A"].completed
          /\ tracker.steps["A"].score = Some(90)

====
